---- MODULE Spec2Model ----
(***************************************************************************)
(* State-machine model of the Spotify GPT bridge (src/server.js, the       *)
(* shared-secret revision that starts at line 106): the in-memory token    *)
(* state, the OAuth callback, the access guard and the guarded command     *)
(* routes.  A request is a process that moves at the handler's await       *)
(* points; the code between two awaits is one atomic step, as on Node's    *)
(* single-threaded event loop.                                             *)
(***************************************************************************)
EXTENDS Integers, Sequences, FiniteSets, TLC

\* ---------------------------------------------------------------- bounds
\* The clock advances at most MaxTicks times.
MaxTicks == 3
\* The provider issues at most MaxIssued access tokens: a connection and two
\* more, so that two refreshes, or a reconnection and a refresh, can overlap.
MaxIssued == 3
\* The provider issues at most MaxRouteIssued access tokens where the routes
\* are followed with all their inputs: a connection and a refresh.
MaxRouteIssued == 2

\* ------------------------------------------------------ program constants
SKEW_MS == 10000
DEFAULT_EXPIRES_IN == 3600
PAGE_LIMIT == 50
DEFAULT_VOLUME == 50
VOLUME_MAX == 100
VOLUME_MIN == 0
\* HTTP statuses the handlers write themselves
UNAUTHORIZED == 401
BAD_REQUEST == 400
NOT_FOUND == 404
SERVER_ERROR == 500
REDIRECT_FLOOR == 300

\* One clock step: half the skew window, so that a token can be seen fresh,
\* inside the skew window and expired.
TickMs == SKEW_MS \div 2

\* ------------------------------------------------------------ JS values
UNDEF == "<undefined>"
\* !s for the strings (and undefined) the handlers test
Falsy(s) == s \in {UNDEF, ""}
\* a || b on strings
OrElse(a, b) == IF Falsy(a) THEN b ELSE a

\* JSON values of a request body that are not strings: null, true, false, 0
JsNull == "<null>"
JsTrue == "<true>"
JsFalse == "<false>"
JsZero == "<0>"
\* !!x
NotNot(x) == x \notin {UNDEF, "", JsNull, JsFalse, JsZero}

\* String.prototype.trim on the names the model uses
Trim(s) ==
  CASE s = "  " -> ""
    [] s = " Road Trip " -> "Road Trip"
    [] OTHER -> s

\* String.prototype.toLowerCase on the names the model uses
ToLowerCase(s) ==
  CASE s = "Road Trip" -> "road trip"
    [] s = "ROAD TRIP" -> "road trip"
    [] s = "Chill Mix" -> "chill mix"
    [] s = "Road Trip 2" -> "road trip 2"
    [] OTHER -> s

\* A JS number or the lack of one: [t |-> "undef" | "num" | "nan", v |-> Int]
JsUndef == [t |-> "undef", v |-> 0]
JsNaN == [t |-> "nan", v |-> 0]
JsNum(n) == [t |-> "num", v |-> n]

Min(a, b) == IF a < b THEN a ELSE b
Max(a, b) == IF a > b THEN a ELSE b

\* Math.min(hi, x) and Math.max(lo, x): NaN is contagious
MathMin(hi, x) == IF x.t = "nan" THEN JsNaN ELSE JsNum(Min(hi, x.v))
MathMax(lo, x) == IF x.t = "nan" THEN JsNaN ELSE JsNum(Max(lo, x.v))

\* the clamp without its lower bound
ClampVolumeUpperOnly(volume) ==
  MathMin(VOLUME_MAX, IF volume.t = "undef" THEN JsNum(DEFAULT_VOLUME) ELSE volume)

\* Math.max(0, Math.min(100, Number(req.body?.volume ?? 50)))
ClampVolume(volume) ==
  LET given == IF volume.t = "undef" THEN JsNum(DEFAULT_VOLUME) ELSE volume
  IN  MathMax(VOLUME_MIN, MathMin(VOLUME_MAX, given))

\* (r.data.expires_in || 3600) * 1000, expires_in an optional number of seconds
ExpiresMs(expires_in) ==
  (IF expires_in = <<>> \/ expires_in[1] = 0
     THEN DEFAULT_EXPIRES_IN ELSE expires_in[1]) * 1000

\* ---------------------------------------------------------------- state
VARIABLES
  secret,             \* ACTION_SHARED_SECRET, fixed at startup
  ACCESS_TOKEN,       \* 0 is null, n > 0 the n-th token the provider issued
  REFRESH_TOKEN,      \* 0 is null, n > 0 the refresh token of grant n
  ACCESS_EXPIRES_AT,  \* ms
  now,                \* Date.now(), ms
  issued,             \* how many access tokens the provider has issued
  req                 \* the request each slot is handling

vars == <<secret, ACCESS_TOKEN, REFRESH_TOKEN, ACCESS_EXPIRES_AT, now, issued, req>>

\* Slot 1 serves the guarded routes, slot 2 the OAuth callback.
Procs == {1, 2}

PlaybackRoutes == {"play", "pause", "next", "previous"}
GuardedRoutes ==
  PlaybackRoutes \cup {"status", "volume", "search", "playlist", "playlistAdd"}
\* Routes whose handler body sits in try/catch (lines 305-310, 319-344)
CatchingRoutes == {"playlist", "playlistAdd"}

\* ------------------------------------------------------ request inputs
Secrets == {"", "s3cret"}
\* req.headers.authorization as the HTTP server delivers it: a header value
\* arrives without its leading and trailing whitespace, so the bare scheme
\* sent as "Bearer " is seen as "Bearer".
AuthHeaders ==
  {UNDEF, "", "Bearer", "Bearer s3cret", "Bearer wrong", "s3cret", "bearer s3cret"}
VolumeInputs ==
  {JsUndef, JsNaN, JsNum(-20), JsNum(0), JsNum(37), JsNum(100), JsNum(150)}
QueryInputs == {UNDEF, "", "Mr Brightside"}
NameInputs == {UNDEF, "  ", " Road Trip "}
\* description and public of the body of /playlist: both left out, or given
\* (a text, the empty text, null; true, a truthy text, 0)
PlaylistOptions ==
  { [description |-> UNDEF, public |-> UNDEF],
    [description |-> "Summer", public |-> JsTrue],
    [description |-> "", public |-> "yes"],
    [description |-> JsNull, public |-> JsZero] }
PlaylistNameInputs == {UNDEF, "Road Trip"}
UriInputs == {UNDEF, "", "spotify:track:direct"}
\* createIfMissing: absent (the default applies) or given
CreateIfMissingInputs == {<<>>, <<FALSE>>}
\* What the player has when /play or /volume arrives
DeviceStates == {"none", "inactive", "active"}
CodeInputs == {"validCode", "badCode"}
\* expires_in of a token response: absent, or seconds
ExpiresInChoices == {<<>>, <<0>>, <<5>>, <<20>>}
\* Upstream error statuses
ErrorStatuses == {NOT_FOUND, 502}

\* The account's playlists: len of them, named "Chill Mix" but for the hits.
NoAccount == [len |-> 0, hits |-> {}]
Accounts ==
  { NoAccount,
    [len |-> PAGE_LIMIT, hits |-> {}],
    [len |-> 1, hits |-> {[pos |-> 1, name |-> "Road Trip 2"]}],
    [len |-> 2, hits |-> {[pos |-> 2, name |-> "Road Trip"]}],
    [len |-> PAGE_LIMIT + 1, hits |-> {[pos |-> PAGE_LIMIT + 1, name |-> "ROAD TRIP"]}] }

NoInput ==
  [volume |-> JsUndef, q |-> UNDEF, name |-> UNDEF, playlistName |-> UNDEF,
   query |-> UNDEF, uri |-> UNDEF, createIfMissing |-> <<>>,
   device |-> "active", account |-> NoAccount, code |-> UNDEF,
   description |-> UNDEF, public |-> UNDEF]

NoLocals ==
  [trackUri |-> UNDEF, userId |-> UNDEF, playlistId |-> 0, phase |-> "none",
   offset |-> 0, name |-> UNDEF, description |-> UNDEF, isPublic |-> FALSE]

NoResponse == [status |-> 0, body |-> [kind |-> "none"]]

Idle ==
  [route |-> "none", auth |-> UNDEF, inp |-> NoInput, pc |-> "idle", at |-> "none",
   arg |-> [kind |-> "none"], tnow |-> 0, tok |-> 0, loc |-> NoLocals,
   log |-> <<>>, resp |-> NoResponse, thrown |-> "none"]

Init ==
  /\ secret \in Secrets
  /\ ACCESS_TOKEN = 0
  /\ REFRESH_TOKEN = 0
  /\ ACCESS_EXPIRES_AT = 0
  /\ now = 0
  /\ issued = 0
  /\ req = [p \in Procs |-> Idle]

\* ------------------------------------------------- responses and throws
NoArg == [kind |-> "none"]
Pending == [kind |-> "pending"]

\* res.status(status).json(body) / res.send(body): the request is answered.
Respond(r, status, body) ==
  [r EXCEPT !.pc = "done", !.resp = [status |-> status, body |-> body],
            !.at = "none", !.arg = NoArg, !.tnow = 0, !.tok = 0, !.loc = NoLocals]

\* Messages of the errors ensureAccessToken throws: its own, and axios's for
\* a token response that is not 2xx
NOT_CONNECTED == "Not connected. Visit /login once to authorize."
REFRESH_FAILED == "Request failed with status code"

\* A call that gets no HTTP response at all (connection reset, timeout): axios
\* rejects, whatever validateStatus says, with the message of the network
\* error.  The log keeps NO_RESPONSE in the place of a status.
NO_RESPONSE == 999
NETWORK_ERROR == "read ECONNRESET"
Unanswered == [kind |-> "unanswered"]

\* The request gets no answer and its handler is over: Left(r, "hung") while
\* the process goes on, Left(r, "crashed") when the process has exited.
Left(r, pc) ==
  [r EXCEPT !.pc = pc, !.at = "none", !.arg = NoArg, !.tnow = 0, !.tok = 0,
            !.loc = NoLocals]

\* An exception leaves the handler.  Inside try/catch (/playlist and
\* /playlist/add) the catch answers 500 with the message.  The other guarded
\* handlers are async functions without try/catch, and what becomes of their
\* rejected promise is the runtime's choice: Express 4 drops it, and the
\* unhandled rejection then ends the process (Node 15 and later, by default)
\* or is only reported, the request never being answered (earlier Node, or
\* --unhandled-rejections=warn); Express 5 hands it to the default error
\* handler, which answers 500.
Thrown(r, msg) ==
  LET t == [r EXCEPT !.thrown = msg]
  IN  IF r.route \in CatchingRoutes
        THEN {Respond(t, SERVER_ERROR, [error |-> msg])}
        ELSE { Left(t, "crashed"),
               Left(t, "hung"),
               Respond(t, SERVER_ERROR, [error |-> "Internal Server Error"]) }

\* The last call of the log gets its response.
Answered(r, status, res) ==
  [r EXCEPT !.log[Len(r.log)].status = status, !.log[Len(r.log)].res = res]

\* ------------------------------------------------------------- guard
\* guard that also takes the bare secret, without the Bearer scheme
guardBareSecret(auth) == OrElse(auth, "") \in {"Bearer " \o secret, secret}

\* guard(req, res, next)
guard(auth) == OrElse(auth, "") = "Bearer " \o secret

\* ------------------------------------------------- ensureAccessToken, sp
\* ACCESS_TOKEN && now < ACCESS_EXPIRES_AT - 10_000
CacheFresh(t) == ACCESS_TOKEN # 0 /\ t < ACCESS_EXPIRES_AT - SKEW_MS

\* not connected only while no access token was ever held
NotConnectedNoToken == REFRESH_TOKEN = 0 /\ ACCESS_TOKEN = 0

\* !REFRESH_TOKEN
NotConnected == REFRESH_TOKEN = 0

\* a refresh that keeps the later of the stored and the new expiry
RefreshedExpiryKeepLater(tnow, expires_in) ==
  Max(ACCESS_EXPIRES_AT, tnow + ExpiresMs(expires_in))

\* now + (r.data.expires_in || 3600) * 1000, now sampled on entry
RefreshedExpiry(tnow, expires_in) == tnow + ExpiresMs(expires_in)

\* /callback adding expires_in as if it were milliseconds
ExchangedExpirySeconds(t, expires_in) ==
  t + (IF expires_in = <<>> \/ expires_in[1] = 0 THEN DEFAULT_EXPIRES_IN ELSE expires_in[1])

\* Date.now() + (r.data.expires_in || 3600) * 1000 in /callback
ExchangedExpiry(t, expires_in) == t + ExpiresMs(expires_in)

\* REFRESH_TOKEN = r.data.refresh_token, whether the response has one or not
ExchangedRefreshTokenOverwriting(refresh_token) ==
  IF refresh_token = <<>> THEN 0 ELSE refresh_token[1]

\* if (r.data.refresh_token) REFRESH_TOKEN = r.data.refresh_token
ExchangedRefreshToken(refresh_token) ==
  IF refresh_token = <<>> THEN REFRESH_TOKEN ELSE refresh_token[1]

\* axios({...headers: Authorization: Bearer token}): the API call is sent.
Issue(r, token) ==
  [r EXCEPT !.pc = "up", !.tok = token, !.tnow = 0,
            !.log = Append(@, [call |-> r.at, arg |-> r.arg, tok |-> token,
                               status |-> 0, res |-> Pending])]

\* sp(method, path, {params, data}) up to its first suspension: the outcomes
\* of ensureAccessToken's synchronous part.
sp(r, label, arg) ==
  LET r1 == [r EXCEPT !.at = label, !.arg = arg]
  IN  IF CacheFresh(now)
        THEN {Issue(r1, ACCESS_TOKEN)}
        ELSE IF NotConnected
          THEN Thrown(r1, NOT_CONNECTED)
          ELSE {[r1 EXCEPT !.pc = "token", !.tnow = now,
                           !.log = Append(@, [call |-> "refresh",
                                              arg |-> [refresh_token |-> REFRESH_TOKEN],
                                              tok |-> 0, status |-> 0, res |-> Pending])]}

\* ------------------------------------------------------ route handlers
\* Each handler is given as what it does up to its next suspension: the set
\* of records the request can be in afterwards.

SearchParams(q) == [q |-> q, type |-> "track", limit |-> 1]

\* getUserId() as called from findPlaylistIdByName(name)
findPlaylistIdByName(r, name) ==
  sp([r EXCEPT !.loc.phase = "find", !.loc.name = name, !.loc.offset = 0], "me", NoArg)

\* createPlaylist(name, description = "Created by GPT Bridge", isPublic = false)
\* up to the await in getUserId(); the defaults stand in for undefined only,
\* and isPublic is <<>> when the caller passes none.
createPlaylist(r, name, description, isPublic) ==
  sp([r EXCEPT !.loc.phase = "create", !.loc.name = name,
               !.loc.description =
                 IF description = UNDEF THEN "Created by GPT Bridge" ELSE description,
               !.loc.isPublic = IF isPublic = <<>> THEN FALSE ELSE isPublic[1]],
     "me", NoArg)

\* createIfMissing defaulting to false
CreateIfMissingOptIn(r) ==
  IF r.inp.createIfMissing = <<>> THEN FALSE ELSE r.inp.createIfMissing[1]

\* createIfMissing = true unless the body gives it
CreateIfMissing(r) ==
  IF r.inp.createIfMissing = <<>> THEN TRUE ELSE r.inp.createIfMissing[1]

\* /playlist/add from "if (!playlistId) return 404" on: the track is appended
AddTrack(r, playlistId) ==
  IF playlistId = 0
    THEN {Respond(r, NOT_FOUND, [error |-> "Playlist not found"])}
    ELSE sp([r EXCEPT !.loc.playlistId = playlistId], "append",
            [playlistId |-> playlistId, uris |-> <<r.loc.trackUri>>])

\* /playlist/add after findPlaylistIdByName returned playlistId (0 is null)
AfterFind(r, playlistId) ==
  IF playlistId = 0 /\ CreateIfMissing(r)
    THEN createPlaylist(r, r.inp.playlistName, UNDEF, <<>>)
    ELSE AddTrack(r, playlistId)

\* /playlist/add resolving the playlist without the check of trackUri
AfterTrackUnchecked(r) == findPlaylistIdByName(r, r.inp.playlistName)

\* /playlist/add from "if (!trackUri) return 400" on
AfterTrack(r) ==
  IF Falsy(r.loc.trackUri)
    THEN {Respond(r, BAD_REQUEST, [error |-> "Provide 'uri' or 'query'."])}
    ELSE findPlaylistIdByName(r, r.inp.playlistName)

\* app.post("/playlist/add", guard, ...) up to its first await
PlaylistAddHandler(r) ==
  IF Falsy(r.inp.playlistName)
    THEN {Respond(r, BAD_REQUEST, [error |-> "playlistName is required"])}
    ELSE IF Falsy(r.inp.uri) /\ ~Falsy(r.inp.query)
      THEN sp(r, "search", SearchParams(r.inp.query))
      ELSE AfterTrack([r EXCEPT !.loc.trackUri = r.inp.uri])

\* app.post("/playlist", guard, ...) up to its first await
PlaylistHandler(r) ==
  LET name == Trim(OrElse(r.inp.name, ""))
  IN  IF Falsy(name)
        THEN {Respond(r, BAD_REQUEST, [error |-> "name is required"])}
        ELSE createPlaylist(r, name, r.inp.description, <<NotNot(r.inp.public)>>)

\* app.get("/search", guard, ...) up to its first await
SearchHandler(r) ==
  IF Falsy(r.inp.q)
    THEN {Respond(r, BAD_REQUEST, [error |-> "Missing query param 'q'."])}
    ELSE sp(r, "search", SearchParams(r.inp.q))

\* app.post("/volume", guard, ...) up to its first await
VolumeHandler(r) ==
  sp(r, "volume", [volume_percent |-> ClampVolume(r.inp.volume)])

\* /play, /pause, /next, /previous and /status up to their await
PlaybackHandler(r) == sp(r, r.route, NoArg)

\* The handler of a guarded route, entered by guard's next()
Handler(r) ==
  CASE r.route = "volume" -> VolumeHandler(r)
    [] r.route = "search" -> SearchHandler(r)
    [] r.route = "playlist" -> PlaylistHandler(r)
    [] r.route = "playlistAdd" -> PlaylistAddHandler(r)
    [] OTHER -> PlaybackHandler(r)

\* A guarded route: guard, then the handler
Guarded(r) ==
  IF guard(r.auth)
    THEN Handler(r)
    ELSE {Respond(r, UNAUTHORIZED, [error |-> "Unauthorized"])}

\* ------------------------------------------- handlers after an API call
\* r.status < 300 ? res.json({ ok: true }) : res.status(r.status).json(r.data)
OkOrRelay(r, status, data) ==
  IF status < REDIRECT_FLOOR
    THEN Respond(r, 200, [ok |-> TRUE])
    ELSE Respond(r, status, data)

\* data?.tracks?.items?.[0], as a sequence of at most one track
FirstTrack(data) ==
  IF data.kind = "tracks" /\ Len(data.items) > 0 THEN <<data.items[1]>> ELSE <<>>

\* /search answering 200 with whatever the search gave, a track or none
SearchResultUnchecked(r, status, data) ==
  IF status >= REDIRECT_FLOOR
    THEN Respond(r, status, data)
    ELSE Respond(r, 200, data)

\* /search after its call
SearchResult(r, status, data) ==
  IF status >= REDIRECT_FLOOR
    THEN Respond(r, status, data)
    ELSE LET t == FirstTrack(data)
         IN  IF t = <<>>
               THEN Respond(r, NOT_FOUND, [error |-> "No track found."])
               ELSE Respond(r, 200,
                      [id |-> t[1].id, uri |-> t[1].uri, name |-> t[1].name,
                       artists |-> [i \in DOMAIN t[1].artists |-> t[1].artists[i].name],
                       album |-> t[1].album.name])

\* /playlist/add after its search call: the status is not looked at
TrackResolved(r, status, data) ==
  LET item == FirstTrack(data)
  IN  IF item = <<>>
        THEN {Respond(r, NOT_FOUND, [error |-> "Track not found"])}
        ELSE AfterTrack([r EXCEPT !.loc.trackUri = item[1].uri])

\* the first item whose name is the given one letter for letter, 0 if none
FindHitExact(items, name) ==
  LET idx == {i \in DOMAIN items : items[i].name = name}
  IN  IF idx = {} THEN 0
      ELSE items[CHOOSE i \in idx : \A j \in idx : i <= j].id

\* items.find(p => p.name.toLowerCase() === name.toLowerCase())?.id, 0 if none
FindHit(items, name) ==
  LET idx == {i \in DOMAIN items : ToLowerCase(items[i].name) = ToLowerCase(name)}
  IN  IF idx = {} THEN 0
      ELSE items[CHOOSE i \in idx : \A j \in idx : i <= j].id

\* findPlaylistIdByName after one page of the listing
PageListed(r, status, data) ==
  IF status >= REDIRECT_FLOOR
    THEN Thrown(r, "Failed to list playlists")
    ELSE LET hit == FindHit(data.items, r.loc.name)
         IN  IF hit # 0 THEN AfterFind(r, hit)
             ELSE IF Len(data.items) < PAGE_LIMIT THEN AfterFind(r, 0)
             ELSE sp([r EXCEPT !.loc.offset = @ + PAGE_LIMIT], "list",
                     [userId |-> r.loc.userId, limit |-> PAGE_LIMIT,
                      offset |-> r.loc.offset + PAGE_LIMIT])

\* getUserId after its call, back in findPlaylistIdByName or createPlaylist
UserIdKnown(r, status, data) ==
  IF status >= REDIRECT_FLOOR
    THEN Thrown(r, "Failed to get user profile")
    ELSE LET r1 == [r EXCEPT !.loc.userId = data.id]
         IN  IF r.loc.phase = "find"
               THEN sp(r1, "list",
                       [userId |-> data.id, limit |-> PAGE_LIMIT, offset |-> r.loc.offset])
               ELSE sp(r1, "create",
                       [userId |-> data.id, name |-> r.loc.name,
                        description |-> r.loc.description, public |-> r.loc.isPublic])

\* createPlaylist after its POST, back in /playlist or /playlist/add
PlaylistCreated(r, status, data) ==
  IF status >= REDIRECT_FLOOR
    THEN Thrown(r, "Failed to create playlist")
    ELSE IF r.route = "playlist"
      THEN {Respond(r, 200, [ok |-> TRUE, playlistId |-> data.id])}
      ELSE AddTrack(r, data.id)

\* /playlist/add after the track was posted
TrackAdded(r, status, data) ==
  IF status >= REDIRECT_FLOOR
    THEN Respond(r, status, data)
    ELSE Respond(r, 200,
           [ok |-> TRUE, playlistId |-> r.loc.playlistId, added |-> r.loc.trackUri])

\* The handler resumes with the response of the call it awaited.
Continue(r, status, data) ==
  CASE r.at = "me" -> UserIdKnown(r, status, data)
    [] r.at = "list" -> PageListed(r, status, data)
    [] r.at = "create" -> PlaylistCreated(r, status, data)
    [] r.at = "append" -> {TrackAdded(r, status, data)}
    [] r.at = "search" /\ r.route = "playlistAdd" -> TrackResolved(r, status, data)
    [] r.at = "search" /\ r.route = "search" -> {SearchResult(r, status, data)}
    [] r.at = "status" -> {Respond(r, status, data)}
    [] OTHER -> {OkOrRelay(r, status, data)}

\* ------------------------------------------------ the Spotify services
Track ==
  [id |-> "t1", uri |-> "spotify:track:found", name |-> "Mr. Brightside",
   artists |-> <<[name |-> "The Killers"]>>, album |-> [name |-> "Hot Fuss"]]

ErrorBody(status) == [kind |-> "error", error |-> [status |-> status]]
Empty == [kind |-> "empty"]

NameAt(account, i) ==
  IF \E h \in account.hits : h.pos = i
    THEN (CHOOSE h \in account.hits : h.pos = i).name
    ELSE "Chill Mix"

\* GET /users/{id}/playlists?limit&offset
Page(account, limit, offset) ==
  [i \in 1..Max(0, Min(limit, account.len - offset)) |->
     [id |-> offset + i, name |-> NameAt(account, offset + i)]]

ApiErrors == {[status |-> s, data |-> ErrorBody(s)] : s \in ErrorStatuses}

\* What the Web API can answer to the call the request awaits
ApiResponses(r) ==
  CASE r.at \in {"play", "volume"} /\ r.inp.device # "active" ->
         {[status |-> NOT_FOUND, data |-> ErrorBody(NOT_FOUND)]}
    [] r.at \in PlaybackRoutes \cup {"volume"} ->
         {[status |-> 204, data |-> Empty]} \cup ApiErrors
    [] r.at = "status" ->
         {[status |-> 200, data |-> [kind |-> "player"]],
          [status |-> 204, data |-> Empty]} \cup ApiErrors
    [] r.at = "search" ->
         {[status |-> 200, data |-> [kind |-> "tracks", items |-> <<>>]],
          [status |-> 200, data |-> [kind |-> "tracks", items |-> <<Track>>]]}
         \cup ApiErrors
    [] r.at = "me" ->
         {[status |-> 200, data |-> [kind |-> "user", id |-> "user1"]]} \cup ApiErrors
    [] r.at = "list" ->
         {[status |-> 200,
           data |-> [kind |-> "page",
                     items |-> Page(r.inp.account, r.arg.limit, r.arg.offset)]]}
         \cup ApiErrors
    [] r.at = "create" ->
         {[status |-> 201, data |-> [kind |-> "playlist", id |-> r.inp.account.len + 1]]}
         \cup ApiErrors
    [] r.at = "append" ->
         {[status |-> 201, data |-> [kind |-> "snapshot"]]} \cup ApiErrors

\* What the log keeps of a response
Summary(data) ==
  IF data.kind = "page" THEN [kind |-> "page", count |-> Len(data.items)] ELSE data

TokenErrorStatuses == {BAD_REQUEST, 503}
\* The ways axios.post to the token endpoint rejects: a status that is not 2xx,
\* or no response
TokenFailures == TokenErrorStatuses \cup {NO_RESPONSE}
FailureBody(s) == IF s = NO_RESPONSE THEN Unanswered ELSE ErrorBody(s)
FailureMessage(s) == IF s = NO_RESPONSE THEN NETWORK_ERROR ELSE REFRESH_FAILED

\* --------------------------------------------------------------- inputs
InputsOf(route) ==
  CASE route = "play" -> {[NoInput EXCEPT !.device = d] : d \in DeviceStates}
    [] route = "volume" ->
         {[NoInput EXCEPT !.device = d, !.volume = v] :
            d \in DeviceStates, v \in VolumeInputs}
    [] route = "search" -> {[NoInput EXCEPT !.q = q] : q \in QueryInputs}
    [] route = "playlist" ->
         {[NoInput EXCEPT !.name = n] : n \in NameInputs} \cup
         {[NoInput EXCEPT !.name = " Road Trip ", !.description = o.description,
                          !.public = o.public] : o \in PlaylistOptions}
    [] route = "playlistAdd" ->
         {[NoInput EXCEPT !.playlistName = n, !.uri = u, !.query = q,
                          !.createIfMissing = c, !.account = a] :
            n \in PlaylistNameInputs, u \in UriInputs, q \in QueryInputs,
            c \in CreateIfMissingInputs, a \in Accounts}
    [] OTHER -> {NoInput}

NewRequest(route, auth, inp) ==
  [Idle EXCEPT !.route = route, !.auth = auth, !.inp = inp]

\* Accounts that exercise the listing: the name in other letter cases, twice,
\* beside a longer name, on the last row of a page, on a later page; pages
\* that are empty, short, full, and full twice over.
FindAccounts ==
  { NoAccount,
    [len |-> PAGE_LIMIT, hits |-> {}],
    [len |-> 2 * PAGE_LIMIT, hits |-> {}],
    [len |-> 3, hits |-> {[pos |-> 2, name |-> "ROAD TRIP"], [pos |-> 3, name |-> "Road Trip"]}],
    [len |-> PAGE_LIMIT, hits |-> {[pos |-> PAGE_LIMIT, name |-> "road trip"]}],
    [len |-> PAGE_LIMIT + 1, hits |-> {[pos |-> PAGE_LIMIT + 1, name |-> "ROAD TRIP"]}],
    [len |-> PAGE_LIMIT + 10,
     hits |-> {[pos |-> 1, name |-> "Road Trip 2"], [pos |-> PAGE_LIMIT + 5, name |-> "Road Trip"]}],
    [len |-> 2 * PAGE_LIMIT,
     hits |-> {[pos |-> PAGE_LIMIT, name |-> "Road Trip"],
               [pos |-> PAGE_LIMIT + 1, name |-> "road trip"]}],
    [len |-> 2 * PAGE_LIMIT + 1,
     hits |-> {[pos |-> PAGE_LIMIT, name |-> "Road Trip 2"],
               [pos |-> 2 * PAGE_LIMIT + 1, name |-> "road trip"]}] }

\* The routes and bodies the token lifecycle is followed with: one call per
\* request (/pause) and several (/playlist)
TokenRoutes == {"pause", "playlist"}
TokenInputs(route) ==
  IF route = "playlist"
    THEN {[NoInput EXCEPT !.name = n] : n \in NameInputs}
    ELSE InputsOf(route)

\* The body of the requests that run side by side
ConcInput(route) ==
  IF route = "playlist" THEN [NoInput EXCEPT !.name = " Road Trip "] ELSE NoInput

\* /playlist/add of a given track to "Road Trip" on those accounts
FindInputs ==
  {[NoInput EXCEPT !.playlistName = "Road Trip", !.uri = "spotify:track:direct",
                   !.createIfMissing = c, !.account = a] :
     c \in CreateIfMissingInputs, a \in FindAccounts}

\* -------------------------------------------------------------- actions
\* What a process exit makes of another slot's request: one in flight is cut
\* off, one already over stays as it ended.
Dropped(r) == IF r.pc \in {"token", "up", "exchange"} THEN Left(r, "crashed") ELSE r

\* The process is up until an unhandled rejection has ended it; nothing is
\* served after that (no restart is part of the program).
Running == \A p \in Procs : req[p].pc # "crashed"

\* Slot p's handler step ends with its request as r.  If that is the exit of
\* the process, the requests in flight go with it and so do the module's
\* variables of lines 146-148, shown from then on as holding nothing.
Settle(p, r) ==
  IF r.pc = "crashed"
    THEN /\ req' = [q \in Procs |-> IF q = p THEN r ELSE Dropped(req[q])]
         /\ ACCESS_TOKEN' = 0
         /\ REFRESH_TOKEN' = 0
         /\ ACCESS_EXPIRES_AT' = 0
    ELSE /\ req' = [req EXCEPT ![p] = r]
         /\ UNCHANGED <<ACCESS_TOKEN, REFRESH_TOKEN, ACCESS_EXPIRES_AT>>

\* A request to one of `routes` arrives at slot p and runs to its first await.
Call(p, routes) ==
  /\ Running
  /\ req[p].pc = "idle"
  /\ \E route \in routes, auth \in AuthHeaders :
       \E inp \in InputsOf(route) :
         \E r \in Guarded(NewRequest(route, auth, inp)) :
           Settle(p, r)
  /\ UNCHANGED <<secret, now, issued>>

\* A request to one of TokenRoutes arrives at slot p, /playlist with its name
\* only in the body, and runs to its first await.
CallToken(p) ==
  /\ Running
  /\ req[p].pc = "idle"
  /\ \E route \in TokenRoutes, auth \in AuthHeaders :
       \E inp \in TokenInputs(route) :
         \E r \in Guarded(NewRequest(route, auth, inp)) :
           Settle(p, r)
  /\ UNCHANGED <<secret, now, issued>>

\* A request with the secret "s3cret" arrives at slot p, for one of `routes`
\* (/pause, or /playlist with a name), and runs to its first await.
CallConc(p, routes) ==
  /\ Running
  /\ req[p].pc = "idle"
  /\ \E route \in routes :
       \E r \in Guarded(NewRequest(route, "Bearer s3cret", ConcInput(route))) :
         Settle(p, r)
  /\ UNCHANGED <<secret, now, issued>>

\* /playlist/add is asked to resolve a playlist by name; the request runs to
\* its first await.
CallFind(p) ==
  /\ Running
  /\ req[p].pc = "idle"
  /\ \E auth \in AuthHeaders, inp \in FindInputs :
       \E r \in Guarded(NewRequest("playlistAdd", auth, inp)) :
         Settle(p, r)
  /\ UNCHANGED <<secret, now, issued>>

\* The token endpoint grants the refresh, with or without a rotated refresh
\* token in its response: ensureAccessToken stores the access token and the
\* expiry (lines 167-168, nothing else) and returns, and sp sends the API call.
Refreshed(p, choices) ==
  /\ Running
  /\ req[p].pc = "token"
  /\ issued < MaxIssued
  /\ \E e \in choices, rotated \in BOOLEAN :
       LET token == issued + 1
           refresh_token == IF rotated THEN <<token>> ELSE <<>>
           r == Answered(req[p], 200,
                         [kind |-> "token", access_token |-> token, expires_in |-> e,
                          refresh_token |-> refresh_token])
       IN  /\ ACCESS_TOKEN' = token
           /\ ACCESS_EXPIRES_AT' = RefreshedExpiry(r.tnow, e)
           /\ issued' = token
           /\ req' = [req EXCEPT ![p] = Issue(r, token)]
  /\ UNCHANGED <<secret, REFRESH_TOKEN, now>>

\* a rejected refresh that is sent again instead of thrown
RefreshRejectedRetry(p) ==
  /\ Running
  /\ req[p].pc = "token"
  /\ \E s \in TokenFailures :
       req' = [req EXCEPT ![p] =
                 [Answered(req[p], s, FailureBody(s)) EXCEPT
                    !.log = Append(@, [call |-> "refresh",
                                       arg |-> [refresh_token |-> REFRESH_TOKEN],
                                       tok |-> 0, status |-> 0, res |-> Pending])]]
  /\ UNCHANGED <<secret, ACCESS_TOKEN, REFRESH_TOKEN, ACCESS_EXPIRES_AT, now, issued>>

\* The token endpoint rejects the refresh: axios.post throws.
RefreshRejected(p) ==
  /\ Running
  /\ req[p].pc = "token"
  /\ \E s \in TokenFailures :
       \E r \in Thrown(Answered(req[p], s, FailureBody(s)), FailureMessage(s)) :
         Settle(p, r)
  /\ UNCHANGED <<secret, now, issued>>

\* The Web API answers and the handler runs to its next await or to its end.
ApiAnswered(p) ==
  /\ Running
  /\ req[p].pc = "up"
  /\ \E a \in ApiResponses(req[p]) :
       \E r \in Continue(Answered(req[p], a.status, Summary(a.data)), a.status, a.data) :
         Settle(p, r)
  /\ UNCHANGED <<secret, now, issued>>

\* The call to the Web API gets no response: axios rejects and the error
\* leaves sp and the handler's await.
ApiUnanswered(p) ==
  /\ Running
  /\ req[p].pc = "up"
  /\ \E r \in Thrown(Answered(req[p], NO_RESPONSE, Unanswered), NETWORK_ERROR) :
       Settle(p, r)
  /\ UNCHANGED <<secret, now, issued>>

\* GET /callback?code: the exchange request is sent.
CallbackCalled(p) ==
  /\ Running
  /\ req[p].pc = "idle"
  /\ \E code \in CodeInputs :
       req' = [req EXCEPT ![p] =
                 [Idle EXCEPT !.route = "callback", !.inp.code = code, !.pc = "exchange",
                              !.at = "exchange",
                              !.log = <<[call |-> "exchange", arg |-> [code |-> code],
                                         tok |-> 0, status |-> 0, res |-> Pending]>>]]
  /\ UNCHANGED <<secret, ACCESS_TOKEN, REFRESH_TOKEN, ACCESS_EXPIRES_AT, now, issued>>

\* The exchange succeeds: /callback fills the token state and confirms.
CallbackExchanged(p, choices) ==
  /\ Running
  /\ req[p].pc = "exchange"
  /\ req[p].inp.code = "validCode"
  /\ issued < MaxIssued
  /\ \E e \in choices, withRefresh \in BOOLEAN :
       LET token == issued + 1
           refresh_token == IF withRefresh THEN <<token>> ELSE <<>>
           r == Answered(req[p], 200,
                         [kind |-> "token", access_token |-> token, expires_in |-> e,
                          refresh_token |-> refresh_token])
       IN  /\ ACCESS_TOKEN' = token
           /\ ACCESS_EXPIRES_AT' = ExchangedExpiry(now, e)
           /\ REFRESH_TOKEN' = ExchangedRefreshToken(refresh_token)
           /\ issued' = token
           /\ req' = [req EXCEPT ![p] =
                        [Respond(r, 200, [text |-> "Connected! You can close this tab."])
                           EXCEPT !.tnow = now]]
  /\ UNCHANGED <<secret, now>>

\* a failed exchange that disconnects the bridge
CallbackFailedClearing(p) ==
  /\ Running
  /\ req[p].pc = "exchange"
  /\ \E s \in TokenFailures :
       req' = [req EXCEPT ![p] =
                 Respond([Answered(req[p], s, FailureBody(s)) EXCEPT !.thrown = FailureMessage(s)],
                         SERVER_ERROR, [text |-> "Error authenticating with Spotify."])]
  /\ ACCESS_TOKEN' = 0
  /\ REFRESH_TOKEN' = 0
  /\ ACCESS_EXPIRES_AT' = 0
  /\ UNCHANGED <<secret, now, issued>>

\* The exchange fails: axios.post throws and the catch answers 500.
CallbackFailed(p) ==
  /\ Running
  /\ req[p].pc = "exchange"
  /\ \E s \in TokenFailures :
       req' = [req EXCEPT ![p] =
                 Respond([Answered(req[p], s, FailureBody(s)) EXCEPT !.thrown = FailureMessage(s)],
                         SERVER_ERROR, [text |-> "Error authenticating with Spotify."])]
  /\ UNCHANGED <<secret, ACCESS_TOKEN, REFRESH_TOKEN, ACCESS_EXPIRES_AT, now, issued>>

\* The slot takes the next request (an unanswered one stays open on its
\* socket).
Reset(p) ==
  /\ Running
  /\ req[p].pc \in {"done", "hung"}
  /\ req' = [req EXCEPT ![p] = Idle]
  /\ UNCHANGED <<secret, ACCESS_TOKEN, REFRESH_TOKEN, ACCESS_EXPIRES_AT, now, issued>>

\* Time passes.
Tick ==
  /\ Running
  /\ now < MaxTicks * TickMs
  /\ now' = now + TickMs
  /\ UNCHANGED <<secret, ACCESS_TOKEN, REFRESH_TOKEN, ACCESS_EXPIRES_AT, issued, req>>

\* ------------------------------------------------------ specifications
\* Views of the same handlers.  Spec follows the token state in full: the
\* clock, every expires_in the provider may send, the callback running beside
\* a guarded request; its guarded requests are /pause and /playlist (one call
\* outside try/catch, and a handler that calls twice inside try/catch).
\* SpecRoutes follows every guarded route with all its inputs, at one instant
\* and with tokens that last an hour or are stale at once.
RouteExpiresIn == {<<>>, <<5>>}

Next ==
  \/ Tick
  \/ CallToken(1)
  \/ Refreshed(1, ExpiresInChoices)
  \/ RefreshRejected(1)
  \/ ApiAnswered(1)
  \/ ApiUnanswered(1)
  \/ Reset(1)
  \/ CallbackCalled(2)
  \/ CallbackExchanged(2, ExpiresInChoices)
  \/ CallbackFailed(2)
  \/ Reset(2)

Spec == Init /\ [][Next]_vars

NextRoutes ==
  \/ Call(1, GuardedRoutes)
  \/ issued < MaxRouteIssued /\ Refreshed(1, RouteExpiresIn)
  \/ RefreshRejected(1)
  \/ ApiAnswered(1)
  \/ ApiUnanswered(1)
  \/ Reset(1)
  \/ CallbackCalled(2)
  \/ issued < MaxRouteIssued /\ CallbackExchanged(2, RouteExpiresIn)
  \/ CallbackFailed(2)
  \/ Reset(2)

SpecRoutes == Init /\ [][NextRoutes]_vars

\* SpecConc lets both slots serve guarded requests at once, so that
\* invocations of ensureAccessToken overlap: /pause with one call to sp and so
\* one invocation, /playlist with two.  Slot 1 serves both routes, slot 2
\* /pause and /callback.
\* Its tokens are stale at once (5 s) or go stale as the clock moves (20 s).
ConcExpiresIn == {<<5>>, <<20>>}

NextConc ==
  \/ Tick
  \/ CallConc(1, TokenRoutes)
  \/ CallConc(2, {"pause"})
  \/ \E p \in Procs : Refreshed(p, ConcExpiresIn)
  \/ \E p \in Procs : RefreshRejected(p)
  \/ \E p \in Procs : ApiAnswered(p)
  \/ \E p \in Procs : ApiUnanswered(p)
  \/ \E p \in Procs : Reset(p)
  \/ CallbackCalled(2)
  \/ CallbackExchanged(2, ConcExpiresIn)
  \/ CallbackFailed(2)

SpecConc == Init /\ [][NextConc]_vars

\* SpecFind follows findPlaylistIdByName through /playlist/add over accounts
\* of up to three listing pages.
NextFind ==
  \/ CallFind(1)
  \/ issued < MaxRouteIssued /\ Refreshed(1, RouteExpiresIn)
  \/ RefreshRejected(1)
  \/ ApiAnswered(1)
  \/ ApiUnanswered(1)
  \/ Reset(1)
  \/ CallbackCalled(2)
  \/ issued < MaxRouteIssued /\ CallbackExchanged(2, RouteExpiresIn)
  \/ CallbackFailed(2)
  \/ Reset(2)

SpecFind == Init /\ [][NextFind]_vars

\* ============================================================== claims
\* The header that guard admits, spelled out
Bearer == "Bearer " \o secret
Admitted(r) == r.route \in GuardedRoutes /\ r.auth = Bearer
Calls(log, call) == {k \in DOMAIN log : log[k].call = call}

\* C1: on every guarded route a request whose Authorization header is not
\* exactly "Bearer <secret>" (absent and empty headers included) is answered
\* 401 at once: it makes no token call and no API call, and the step that
\* takes it leaves the token state as it was.
C1_GuardDenies ==
  [][\A p \in Procs :
       (req'[p].route \in GuardedRoutes /\ req'[p].auth # Bearer)
         => /\ req'[p].pc = "done"
            /\ req'[p].resp = [status |-> 401, body |-> [error |-> "Unauthorized"]]
            /\ req'[p].log = <<>>
            /\ req'[p].thrown = "none"
            /\ req[p].pc = "idle"
                 => UNCHANGED <<ACCESS_TOKEN, REFRESH_TOKEN, ACCESS_EXPIRES_AT, issued>>]_vars

\* A connected bridge, able to refresh, has just denied /playlist/add without
\* a header.
C1_Witness ==
  \E p \in Procs :
    /\ req[p].route = "playlistAdd"
    /\ req[p].auth = UNDEF
    /\ req[p].resp.status = 401
    /\ REFRESH_TOKEN # 0
    /\ ~CacheFresh(now)

\* A step of slot p that enters sp, and so ensureAccessToken: a guarded
\* request arrives or resumes, and then sends a call or throws NotConnected.
EntersSp(p) ==
  /\ req[p].pc \in {"idle", "up"}
  /\ req'[p].route \in GuardedRoutes
  /\ \/ Len(req'[p].log) = Len(req[p].log) + 1
     \/ req'[p].thrown = NOT_CONNECTED

LastCall(r) == r.log[Len(r.log)]

\* The step in which an uncaught rejection ends the process
ProcessExits ==
  \E p \in Procs : req[p].pc # "crashed" /\ req'[p].pc = "crashed"

\* expires_in seconds as the spec has it: 3600 when absent
SpecExpiresMs(expires_in) ==
  (IF expires_in = <<>> THEN 3600 ELSE expires_in[1]) * 1000

\* C2 (as stated): ensureAccessToken hands out the cached token with no token
\* call while a token is held and now < expires_at - 10 s; with no usable
\* token and a refresh token held it makes exactly one refresh call and, on
\* success, stores the new token and expires_at = now + expires_in, 3600 s
\* when expires_in is absent.
C2_RefresherContract ==
  [][\A p \in Procs :
       /\ (EntersSp(p) /\ ACCESS_TOKEN # 0 /\ now < ACCESS_EXPIRES_AT - 10000)
            => /\ req'[p].pc = "up"
               /\ LastCall(req'[p]).call # "refresh"
               /\ LastCall(req'[p]).tok = ACCESS_TOKEN
               /\ UNCHANGED <<ACCESS_TOKEN, REFRESH_TOKEN, ACCESS_EXPIRES_AT>>
       /\ (EntersSp(p) /\ ~(ACCESS_TOKEN # 0 /\ now < ACCESS_EXPIRES_AT - 10000)
             /\ REFRESH_TOKEN # 0)
            => /\ req'[p].pc = "token"
               /\ LastCall(req'[p]).call = "refresh"
               /\ req'[p].tnow = now
       /\ (req[p].pc = "token" /\ req'[p].pc = "up")
            => LET granted == req'[p].log[Len(req[p].log)]
               IN  /\ granted.call = "refresh"
                   /\ Len(req'[p].log) = Len(req[p].log) + 1
                   /\ LastCall(req'[p]).call # "refresh"
                   /\ LastCall(req'[p]).tok = granted.res.access_token
                   /\ ACCESS_TOKEN' = granted.res.access_token
                   /\ ACCESS_EXPIRES_AT' = req[p].tnow + SpecExpiresMs(granted.res.expires_in)]_vars

\* The exchange of slot c has just been stored, no time has passed since and
\* the token state is still the one /callback left.
JustConnected(c) ==
  /\ req[c].route = "callback"
  /\ req[c].pc = "done"
  /\ req[c].resp.status = 200
  /\ req[c].tnow = now
  /\ ACCESS_TOKEN = req[c].log[1].res.access_token

\* A guarded request arrives at slot g with the right secret and passes the
\* handler's input validation.
ArrivesValid(g) ==
  /\ req[g].pc = "idle"
  /\ req'[g].route \in GuardedRoutes
  /\ req'[g].auth = Bearer
  /\ ~(req'[g].pc = "done" /\ req'[g].resp.status = 400)

\* The request of slot g went to the Web API with token t, no refresh made.
ReachedApiWith(r, t) ==
  /\ r.pc = "up"
  /\ Len(r.log) = 1
  /\ r.log[1].call # "refresh"
  /\ r.log[1].tok = t
  /\ r.thrown = "none"

\* /callback stores what the exchange returned
CallbackStores ==
  \A c \in Procs :
    (req[c].pc = "exchange" /\ req'[c].pc = "done" /\ req'[c].resp.status = 200)
      => LET got == req'[c].log[1].res
         IN  /\ ACCESS_TOKEN' = got.access_token
             /\ ACCESS_EXPIRES_AT' =
                  now + (IF got.expires_in \in {<<>>, <<0>>}
                           THEN 3600000 ELSE got.expires_in[1] * 1000)

\* C3 (as stated): after a successful /callback the token state holds the
\* exchanged token and expiry, so that a guarded call that follows at once
\* gets to the Web API without another /login: it is not turned away as not
\* connected.
C3_RoundTrip ==
  [][/\ CallbackStores
     /\ \A c, g \in Procs :
          (JustConnected(c) /\ ArrivesValid(g))
            => /\ req'[g].thrown = "none"
               /\ req'[g].pc \in {"up", "token"}]_vars

\* The exchange of slot c gave a lifetime that the 10 s skew leaves usable:
\* expires_in absent or 0 (both stored as 3600 s) or more than 10 s.
LongLived(c) ==
  LET e == req[c].log[1].res.expires_in
  IN  e \in {<<>>, <<0>>} \/ e[1] > 10

\* C3 (amended): the token state holds the exchanged token and, as expiry,
\* the time of the exchange plus expires_in (3600 s if absent or 0).  A guarded
\* call that follows at once goes to the Web API with that token and without
\* a refresh when that lifetime exceeds the 10 s skew; otherwise it needs a
\* refresh, and is turned away as not connected when no refresh token is held.
C3_RoundTripLongLived ==
  [][/\ CallbackStores
     /\ \A c, g \in Procs :
          (JustConnected(c) /\ ArrivesValid(g))
            => /\ LongLived(c)
                    => ReachedApiWith(req'[g], req[c].log[1].res.access_token)
               /\ (~LongLived(c) /\ REFRESH_TOKEN # 0)
                    => /\ req'[g].pc = "token"
                       /\ req'[g].thrown = "none"
               /\ (~LongLived(c) /\ REFRESH_TOKEN = 0)
                    => req'[g].thrown = NOT_CONNECTED]_vars

\* /callback has just stored a 20 s token and, at the same instant, /pause
\* is on its way to the Web API with it.
C3_Witness ==
  \E c, g \in Procs :
    /\ JustConnected(c)
    /\ req[c].log[1].res.expires_in = <<20>>
    /\ req[g].route = "pause"
    /\ ReachedApiWith(req[g], req[c].log[1].res.access_token)

\* C4 (as stated): a guarded request whose ensureAccessToken fails with
\* NotConnected or RefreshFailed is answered, with a 5xx or 409 status.
C4_FailureAnswered ==
  \A p \in Procs :
    (req[p].route \in GuardedRoutes /\ req[p].thrown \in {NOT_CONNECTED, REFRESH_FAILED})
      => /\ req[p].pc = "done"
         /\ req[p].resp.status >= 500 \/ req[p].resp.status = 409

\* The answers the handlers make for the named business failures
BusinessFailure(resp) ==
  /\ resp.status \in {400, 404, 409}
  /\ "kind" \notin DOMAIN resp.body
  /\ "error" \in DOMAIN resp.body
  /\ resp.body.error \in {"No track found.", "Track not found", "Playlist not found",
                          "Provide 'uri' or 'query'.", "playlistName is required",
                          "name is required", "Missing query param 'q'.",
                          "No active device"}

\* C5 (as stated): whenever an API call of a guarded request comes back with
\* a status that is not 2xx/3xx, the request is answered with that status and
\* that body, unless it is answered with a named business failure; the
\* search, profile, listing and creation calls of /playlist and /playlist/add
\* included.
C5_StatusTransparency ==
  \A p \in Procs :
    (/\ req[p].route \in GuardedRoutes
     /\ req[p].pc = "done"
     /\ req[p].log # <<>>
     /\ LastCall(req[p]).call # "refresh"
     /\ LastCall(req[p]).status \in 400..599)
      => \/ req[p].resp = [status |-> LastCall(req[p]).status,
                           body |-> LastCall(req[p]).res]
         \/ BusinessFailure(req[p].resp)

\* The control call of /play or /volume
ControlCalls(log) == Calls(log, "play") \cup Calls(log, "volume")

\* C6 (as stated): /play and /volume with no active device and no device at
\* all answer 409 and send no control call; with a device that is not active
\* a transfer call completes before the control call is sent.
C6_DeviceResolution ==
  \A p \in Procs :
    (Admitted(req[p]) /\ req[p].route \in {"play", "volume"})
      => /\ req[p].inp.device = "none"
              => /\ ControlCalls(req[p].log) = {}
                 /\ req[p].pc = "done" /\ req[p].thrown = "none"
                      => req[p].resp.status = 409
         /\ req[p].inp.device = "inactive"
              => \A k \in ControlCalls(req[p].log) :
                   \E j \in Calls(req[p].log, "transfer") :
                     j < k /\ req[p].log[j].status # 0

\* C7: the volume_percent that /volume sends for a numeric volume v is
\* min(100, max(0, v)), a number of 0..100: 150 goes out as 100, -20 as 0.
C7_VolumeClamped ==
  \A p \in Procs :
    \A k \in Calls(req[p].log, "volume") :
      req[p].inp.volume.t = "num"
        => LET v == req[p].inp.volume.v
               sent == req[p].log[k].arg.volume_percent
           IN  /\ sent.t = "num"
               /\ sent.v = (IF v > 100 THEN 100 ELSE IF v < 0 THEN 0 ELSE v)
               /\ sent.v \in 0..100
               /\ v = 150 => sent.v = 100
               /\ v = -20 => sent.v = 0

\* /volume was asked for 150 and has sent 100.
C7_Witness ==
  \E p \in Procs :
    \E k \in Calls(req[p].log, "volume") :
      /\ req[p].inp.volume = JsNum(150)
      /\ req[p].log[k].arg.volume_percent = JsNum(100)
      /\ req[p].log[k].status = 204

\* C8: an admitted /playlist/add with neither uri nor query is answered 400
\* as missing input, whatever playlistName and createIfMissing are, and makes
\* no call at all: no refresh, no search, no listing, no creation, no append.
C8_MissingInput ==
  \A p \in Procs :
    (/\ req[p].route = "playlistAdd"
     /\ req[p].auth = Bearer
     /\ req[p].inp.uri \in {UNDEF, ""}
     /\ req[p].inp.query \in {UNDEF, ""})
      => /\ req[p].pc = "done"
         /\ req[p].resp.status = 400
         /\ req[p].resp.body.error \in
              {"Provide 'uri' or 'query'.", "playlistName is required"}
         /\ req[p].inp.playlistName = "Road Trip"
              => req[p].resp.body.error = "Provide 'uri' or 'query'."
         /\ req[p].log = <<>>
         /\ req[p].thrown = "none"

\* A bridge that would have to refresh has answered 400 to a /playlist/add
\* that names a playlist but no track, with createIfMissing given.
C8_Witness ==
  \E p \in Procs :
    /\ req[p].route = "playlistAdd"
    /\ req[p].auth = Bearer
    /\ req[p].inp.playlistName = "Road Trip"
    /\ req[p].inp.uri = UNDEF
    /\ req[p].inp.query = ""
    /\ req[p].inp.createIfMissing = <<FALSE>>
    /\ req[p].resp.status = 400
    /\ REFRESH_TOKEN # 0
    /\ ~CacheFresh(now)

\* C9: an admitted /search with an empty or missing q is answered 400 and
\* makes no token call and no API call; with a q whose search comes back 2xx
\* with no track it is answered 404.
C9_SearchInput ==
  \A p \in Procs :
    (req[p].route = "search" /\ req[p].auth = Bearer)
      => /\ req[p].inp.q \in {UNDEF, ""}
              => /\ req[p].pc = "done"
                 /\ req[p].resp.status = 400
                 /\ req[p].log = <<>>
                 /\ req[p].thrown = "none"
         /\ (/\ req[p].inp.q \notin {UNDEF, ""}
             /\ req[p].pc = "done"
             /\ req[p].log # <<>>
             /\ LastCall(req[p]).call = "search"
             /\ LastCall(req[p]).status = 200
             /\ LastCall(req[p]).res.items = <<>>)
              => req[p].resp.status = 404

\* /search for "Mr Brightside" found no track and has answered 404.
C9_Witness ==
  \E p \in Procs :
    /\ req[p].route = "search"
    /\ req[p].inp.q = "Mr Brightside"
    /\ req[p].pc = "done"
    /\ req[p].log # <<>>
    /\ LastCall(req[p]).call = "search"
    /\ LastCall(req[p]).status = 200
    /\ LastCall(req[p]).res.items = <<>>
    /\ req[p].resp.status = 404

\* The case of C10: /playlist/add by query, createIfMissing left out, on an
\* account without a playlist of that name in any letter case.
RoadTripMissing(r) ==
  /\ r.route = "playlistAdd"
  /\ r.auth = Bearer
  /\ r.inp.playlistName = "Road Trip"
  /\ r.inp.uri = UNDEF
  /\ r.inp.query = "Mr Brightside"
  /\ r.inp.createIfMissing = <<>>
  /\ \A h \in r.inp.account.hits : h.name \notin {"Road Trip", "ROAD TRIP", "road trip"}

\* Every call of the log was answered 2xx.
AllCallsFine(r) == \A k \in DOMAIN r.log : r.log[k].status \in 200..299

\* C10: in that case there is one search call at most, one creation at most,
\* and the append comes after both, names the created playlist and carries
\* the track the search found; a 200 answer is {ok, playlistId, added} with
\* the created id and the found uri, after exactly one search, one creation
\* and one append; and when the search finds a track and no call fails, the
\* answer is that 200.
C10_CreateThenAppend ==
  \A p \in Procs :
    RoadTripMissing(req[p])
      => LET log == req[p].log
             S == Calls(log, "search")
             Cr == Calls(log, "create")
             Ap == Calls(log, "append")
         IN  /\ Cardinality(S) <= 1
             /\ Cardinality(Cr) <= 1
             /\ Cardinality(Ap) <= 1
             /\ \A a \in Ap :
                  \E s \in S, c \in Cr :
                    /\ s < c /\ c < a
                    /\ log[s].status = 200
                    /\ log[s].res.items # <<>>
                    /\ log[c].status \in 200..299
                    /\ log[a].arg.playlistId = log[c].res.id
                    /\ log[a].arg.uris = <<log[s].res.items[1].uri>>
             /\ (req[p].pc = "done" /\ req[p].resp.status = 200)
                  => /\ Cardinality(S) = 1 /\ Cardinality(Cr) = 1 /\ Cardinality(Ap) = 1
                     /\ \A s \in S, c \in Cr :
                          req[p].resp.body =
                            [ok |-> TRUE, playlistId |-> log[c].res.id,
                             added |-> log[s].res.items[1].uri]
             /\ (/\ req[p].pc = "done"
                 /\ req[p].thrown = "none"
                 /\ AllCallsFine(req[p])
                 /\ \A s \in S : log[s].res.items # <<>>)
                  => req[p].resp.status = 200

\* "Road Trip" was missing on an account of two listing pages, was created,
\* and the found track was added to it.
C10_Witness ==
  \E p \in Procs :
    /\ RoadTripMissing(req[p])
    /\ req[p].inp.account.len = 50
    /\ req[p].pc = "done"
    /\ req[p].resp.status = 200
    /\ req[p].resp.body.added = "spotify:track:found"
    /\ req[p].resp.body.playlistId = 51
    /\ Cardinality(Calls(req[p].log, "list")) = 2

\* C11: when ensureAccessToken is entered with no usable cached token (none
\* held, or now >= expires_at - 10 s) and no refresh token held, it fails with
\* NotConnected: the request sends no call, to the token endpoint or to the
\* Web API, and the token state and the provider are left as they were.  (What
\* the runtime makes of the failure once it has left the handler uncaught, the
\* end of the process and of its state, is not ensureAccessToken's doing.)
C11_NotConnected ==
  [][\A p \in Procs :
       (/\ EntersSp(p)
        /\ ~(ACCESS_TOKEN # 0 /\ now < ACCESS_EXPIRES_AT - 10000)
        /\ REFRESH_TOKEN = 0)
         => /\ req'[p].thrown = NOT_CONNECTED
            /\ Len(req'[p].log) = Len(req[p].log)
            /\ Calls(req'[p].log, "refresh") = {}
            /\ UNCHANGED issued
            /\ ~ProcessExits
                 => UNCHANGED <<ACCESS_TOKEN, REFRESH_TOKEN, ACCESS_EXPIRES_AT>>]_vars

\* /playlist read the profile with a token that has since come within 10 s of
\* its expiry; no refresh token is held, and its second call was refused as
\* not connected.
C11_Witness ==
  \E p \in Procs :
    /\ req[p].route = "playlist"
    /\ req[p].thrown = NOT_CONNECTED
    /\ Len(req[p].log) = 1
    /\ req[p].log[1].call = "me"
    /\ ACCESS_TOKEN # 0
    /\ now >= ACCESS_EXPIRES_AT - 10000
    /\ REFRESH_TOKEN = 0

\* The step in which slot p's pending refresh call is answered, and not with
\* a token.
RefreshRefused(p) ==
  /\ req[p].pc = "token"
  /\ req'[p] # req[p]
  /\ Len(req'[p].log) >= Len(req[p].log)
  /\ req'[p].log[Len(req[p].log)].status \notin {0, NO_RESPONSE} \cup 200..299

\* C12: when the token endpoint answers a refresh with a non-success status,
\* that ensureAccessToken fails with RefreshFailed: the invocation makes no
\* second refresh call (no further call at all) and access_token,
\* refresh_token and expires_at stay as they were.  The next invocation that
\* finds no usable token while the failed request is still on record makes a
\* refresh call of its own, with the held refresh token.  (What the runtime
\* makes of the failure once it has left the handler uncaught, the end of the
\* process and of its state, is not ensureAccessToken's doing.)
C12_RefreshFailed ==
  [][/\ \A p \in Procs :
          RefreshRefused(p)
            => /\ req'[p].thrown = REFRESH_FAILED
               /\ Len(req'[p].log) = Len(req[p].log)
               /\ LastCall(req'[p]).call = "refresh"
               /\ UNCHANGED issued
               /\ ~ProcessExits
                    => UNCHANGED <<ACCESS_TOKEN, REFRESH_TOKEN, ACCESS_EXPIRES_AT>>
     /\ \A p, q \in Procs :
          (/\ p # q
           /\ req[p].route \in GuardedRoutes
           /\ req[p].thrown = REFRESH_FAILED
           /\ EntersSp(q)
           /\ ~(ACCESS_TOKEN # 0 /\ now < ACCESS_EXPIRES_AT - 10000))
            => /\ req'[q].pc = "token"
               /\ LastCall(req'[q]).call = "refresh"
               /\ LastCall(req'[q]).status = 0
               /\ LastCall(req'[q]).arg.refresh_token = REFRESH_TOKEN]_vars

\* One /pause has failed on a refused refresh (503) and, with the token state
\* still stale, the next /pause is waiting for its own refresh.
C12_Witness ==
  \E p, q \in Procs :
    /\ req[p].route = "pause"
    /\ req[p].thrown = REFRESH_FAILED
    /\ req[p].log[1].call = "refresh"
    /\ req[p].log[1].status = 503
    /\ req[q].route = "pause"
    /\ req[q].pc = "token"
    /\ LastCall(req[q]).call = "refresh"
    /\ LastCall(req[q]).status = 0
    /\ ~CacheFresh(now)

\* With ACTION_SHARED_SECRET unset or empty no request to a guarded route is
\* admitted: whatever its Authorization header as delivered (absent, empty, the
\* bare scheme), it is answered 401 and its handler never runs.
EmptySecretAdmitsNone ==
  secret = ""
    => \A p \in Procs :
         req[p].route \in GuardedRoutes
           => /\ req[p].pc = "done"
              /\ req[p].resp.status = 401
              /\ req[p].log = <<>>
              /\ req[p].thrown = "none"

\* C13 (as stated): an unset or empty ACTION_SHARED_SECRET is rejected as a
\* fatal misconfiguration: the service does not come up with it, so that no
\* request is taken up, and none to a guarded route admitted.
C13_EmptySecretRejected ==
  secret = "" => \A p \in Procs : req[p].pc = "idle" /\ req[p].log = <<>>

\* C14 (as stated): when a refresh succeeds, the refresh token held afterwards
\* is the one of the provider's response if it carries one, and the one held
\* before otherwise.
C14_RefreshTokenFollows ==
  [][\A p \in Procs :
       (req[p].pc = "token" /\ req'[p].pc = "up")
         => LET got == req'[p].log[Len(req[p].log)].res
            IN  REFRESH_TOKEN' = (IF got.refresh_token = <<>>
                                    THEN REFRESH_TOKEN
                                    ELSE got.refresh_token[1])]_vars

\* C15: when the authorization-code exchange of /callback fails (it is
\* answered with a status that is not 2xx, or gets no response), the handler
\* answers 500 after its one exchange call, with no retry, and none of its
\* steps (sending the exchange, failing) touches access_token, refresh_token
\* or expires_at.
C15_CallbackFails ==
  [][\A c \in Procs :
       /\ (req[c].pc = "idle" /\ req'[c].route = "callback")
            => /\ req'[c].pc = "exchange"
               /\ Len(req'[c].log) = 1
               /\ req'[c].log[1].call = "exchange"
               /\ UNCHANGED <<ACCESS_TOKEN, REFRESH_TOKEN, ACCESS_EXPIRES_AT>>
       /\ (/\ req[c].pc = "exchange"
           /\ req'[c] # req[c]
           /\ req'[c].log[1].status \notin {0} \cup 200..299)
            => /\ req'[c].pc = "done"
               /\ req'[c].resp.status = 500
               /\ Len(req'[c].log) = 1
               /\ req'[c].log[1].call = "exchange"
               /\ UNCHANGED <<ACCESS_TOKEN, REFRESH_TOKEN, ACCESS_EXPIRES_AT>>]_vars

\* A connected bridge was sent to /callback again with a bad code: it has
\* answered 500 and still holds its tokens.
C15_Witness ==
  \E c \in Procs :
    /\ req[c].route = "callback"
    /\ req[c].inp.code = "badCode"
    /\ req[c].pc = "done"
    /\ req[c].resp.status = 500
    /\ req[c].log[1].status = 400
    /\ ACCESS_TOKEN # 0
    /\ REFRESH_TOKEN # 0
    /\ ACCESS_EXPIRES_AT > 0

\* The lifetime, in ms, that lines 168 and 213 give a response's expires_in
StoredLifetimeMs(expires_in) ==
  IF expires_in \in {<<>>, <<0>>} THEN 3600000 ELSE expires_in[1] * 1000

\* Slot p's refresh is granted in this step, and the pair stored is the one of
\* its response: its access token, and its lifetime from the now p sampled.
StoresOwnRefresh(p) ==
  /\ req[p].pc = "token"
  /\ req'[p].pc = "up"
  /\ LET got == req'[p].log[Len(req[p].log)]
     IN  /\ got.call = "refresh"
         /\ got.status = 200
         /\ ACCESS_TOKEN' = got.res.access_token
         /\ ACCESS_EXPIRES_AT' = req[p].tnow + StoredLifetimeMs(got.res.expires_in)
         /\ Len(req'[p].log) = Len(req[p].log) + 1
         /\ LastCall(req'[p]).tok = got.res.access_token

\* Slot c's exchange is granted in this step, and the pair stored is the one
\* of its response.
StoresOwnExchange(c) ==
  /\ req[c].pc = "exchange"
  /\ req'[c].pc = "done"
  /\ LET got == req'[c].log[1]
     IN  /\ got.status = 200
         /\ ACCESS_TOKEN' = got.res.access_token
         /\ ACCESS_EXPIRES_AT' = now + StoredLifetimeMs(got.res.expires_in)

\* The pair (access_token, expires_at) only ever changes in one step, to the
\* token and the expiry of one and the same response, or, when the process
\* ends, to the empty pair: never the token of one response beside the expiry
\* of another.
PairFromOneResponse ==
  <<ACCESS_TOKEN, ACCESS_EXPIRES_AT>>' # <<ACCESS_TOKEN, ACCESS_EXPIRES_AT>>
    => \/ \E p \in Procs : StoresOwnRefresh(p) \/ StoresOwnExchange(p)
       \/ ProcessExits /\ ACCESS_TOKEN' = 0 /\ ACCESS_EXPIRES_AT' = 0

\* C16: however guarded requests that found the token stale interleave, each
\* invocation of ensureAccessToken makes one refresh call at most (in a
\* request's log no refresh call follows another: between two of them lies the
\* API call of the earlier invocation) and goes on with the token of its own
\* refresh, and the stored pair comes from one single response.
C16_RefreshPerInvocation ==
  [][/\ \A p \in Procs :
          /\ \A i \in 1..(Len(req'[p].log) - 1) :
               req'[p].log[i].call = "refresh" => req'[p].log[i + 1].call # "refresh"
          /\ (req[p].pc = "token" /\ req'[p].pc = "up") => StoresOwnRefresh(p)
     /\ PairFromOneResponse]_vars

\* /playlist found the token stale at both of its calls to sp and has
\* refreshed twice; the token and the expiry of its second refresh are stored
\* while the refresh of a /pause beside it is still on its way.
C16_Witness ==
  \E p, q \in Procs :
    /\ p # q
    /\ req[p].route = "playlist"
    /\ req[p].pc = "up"
    /\ Cardinality(Calls(req[p].log, "refresh")) = 2
    /\ ACCESS_TOKEN = LastCall(req[p]).tok
    /\ ACCESS_EXPIRES_AT = req[p].tnow + 5000
    /\ req[q].route = "pause"
    /\ req[q].pc = "token"

\* C16 (as stated): however guarded requests that found the token stale
\* interleave, each request makes one refresh call at most and goes on with
\* the token of its own refresh, and the stored pair comes from one single
\* response.
C16_ConcurrentRefresh ==
  [][/\ \A p \in Procs :
          /\ Cardinality(Calls(req'[p].log, "refresh")) <= 1
          /\ (req[p].pc = "token" /\ req'[p].pc = "up") => StoresOwnRefresh(p)
     /\ PairFromOneResponse]_vars

\* The names that equal "Road Trip" when letter case is ignored
IsRoadTrip(name) == name \in {"Road Trip", "ROAD TRIP", "road trip"}

\* The position (and id) of the account's first playlist of that name in
\* listing order, 0 if it has none
FirstRoadTrip(account) ==
  LET M == {h.pos : h \in {g \in account.hits : IsRoadTrip(g.name)}}
  IN  IF M = {} THEN 0 ELSE CHOOSE m \in M : \A n \in M : m <= n

\* findPlaylistIdByName has returned null: /playlist/add answered that the
\* playlist is missing, or went on to create it.
ReturnedNull(r) ==
  \/ r.resp = [status |-> 404, body |-> [error |-> "Playlist not found"]]
  \/ \E k \in Calls(r.log, "list") :
       \E j \in Calls(r.log, "me") \cup Calls(r.log, "create") : j > k

\* C17: findPlaylistIdByName("Road Trip") asks for the pages in order, 50 rows
\* at offsets 0, 50, 100, ..., and for a further page only after a full page
\* without the name; it ends within len/50 + 1 pages.  Once a page holds a
\* playlist of that name in any letter case it stops and returns the id of the
\* first such playlist of the account; it returns null only if the account has
\* none and only after a page of fewer than 50 rows, the last, was examined.
C17_FindByName ==
  \A p \in Procs :
    (req[p].route = "playlistAdd" /\ req[p].inp.playlistName = "Road Trip")
      => LET log == req[p].log
             L == Calls(log, "list")
             len == req[p].inp.account.len
             m == FirstRoadTrip(req[p].inp.account)
             InPage(k) == m > log[k].arg.offset /\ m <= log[k].arg.offset + 50
         IN  /\ \A k \in L :
                  /\ log[k].arg.limit = 50
                  /\ log[k].arg.offset = 50 * Cardinality({j \in L : j < k})
             /\ Cardinality(L) <= (len \div 50) + 1
             /\ \A j, k \in L :
                  j < k => /\ log[j].status = 200
                           /\ log[j].res.count = 50
                           /\ ~InPage(j)
             /\ \A k \in L :
                  (log[k].status = 200 /\ InPage(k))
                    => /\ Len(log) > k \/ req[p].thrown # "none"
                       /\ \A j \in DOMAIN log : j > k => log[j].call \in {"refresh", "append"}
                       /\ ~ReturnedNull(req[p])
             /\ \A k \in L :
                  (log[k].status = 200 /\ m = 0 /\ log[k].res.count < 50)
                    => \/ ReturnedNull(req[p])
                       \/ req[p].thrown # "none"
                       \/ req[p].pc = "token"
             /\ \A a \in Calls(log, "append") :
                  IF m # 0
                    THEN log[a].arg.playlistId = m
                    ELSE \E c \in Calls(log, "create") :
                           c < a /\ log[a].arg.playlistId = log[c].res.id
             /\ ReturnedNull(req[p])
                  => /\ m = 0
                     /\ Cardinality(L) = (len \div 50) + 1
                     /\ \E k \in L :
                          /\ \A j \in L : j <= k
                          /\ log[k].status = 200
                          /\ log[k].res.count < 50
                          /\ log[k].res.count = len - log[k].arg.offset

\* On an account of 101 playlists whose last is "road trip" (and whose 50th is
\* "Road Trip 2") the third page was fetched and the track went to playlist 101.
C17_Witness ==
  \E p \in Procs :
    /\ req[p].route = "playlistAdd"
    /\ req[p].inp.account.len = 101
    /\ Cardinality(Calls(req[p].log, "list")) = 3
    /\ req[p].pc = "done"
    /\ req[p].resp.status = 200
    /\ req[p].resp.body.playlistId = 101

\* C18 (as stated): when a /callback exchange that brought a new grant (a new
\* refresh token, still the one held) and a refresh of a guarded request have
\* both completed, the cached access token is not one that the refresh
\* obtained with the previous refresh token: it was issued under the grant of
\* the held refresh token.
C18_GrantConsistent ==
  \A g, c \in Procs :
    (/\ req[c].route = "callback"
     /\ req[c].pc = "done"
     /\ req[c].resp.status = 200
     /\ req[c].log[1].res.refresh_token = <<REFRESH_TOKEN>>
     /\ req[g].route \in GuardedRoutes)
      => \A k \in Calls(req[g].log, "refresh") :
           (req[g].log[k].status = 200 /\ req[g].log[k].arg.refresh_token # REFRESH_TOKEN)
             => ACCESS_TOKEN # req[g].log[k].res.access_token

\* The instant at which the provider takes the token of slot c's completed
\* exchange to expire: the time of the response plus expires_in
ProviderExpiry(c) == req[c].tnow + SpecExpiresMs(req[c].log[1].res.expires_in)

\* C19 (as stated): whenever a token response is stored, by a refresh or by
\* /callback, the stored expires_at is no later than the time of the response
\* plus its expires_in (3600 s when absent); and a token handed out from the
\* cache, seen here for a token whose exchange is still on record, has 10 s or
\* more left before that instant.
C19_ExpiryNotLate ==
  [][/\ \A p \in Procs :
          (\/ req[p].pc = "token" /\ req'[p].pc = "up"
           \/ req[p].pc = "exchange" /\ req'[p].pc = "done" /\ req'[p].resp.status = 200)
            => LET got == req'[p].log[Len(req[p].log)].res
               IN  ACCESS_EXPIRES_AT' <= now + SpecExpiresMs(got.expires_in)
     /\ \A c, g \in Procs :
          (/\ req[c].route = "callback"
           /\ req[c].pc = "done"
           /\ req[c].resp.status = 200
           /\ ACCESS_TOKEN = req[c].log[1].res.access_token
           /\ EntersSp(g)
           /\ req'[g].pc = "up"
           /\ LastCall(req'[g]).tok = ACCESS_TOKEN)
            => now + 10000 <= ProviderExpiry(c)]_vars

\* C20: once a refresh token is held, every step of the running process keeps
\* one held (granted and refused refreshes, failed callbacks, callbacks whose
\* response brings no refresh_token, guarded requests, the passing of time),
\* and no entry of ensureAccessToken fails with NotConnected any more; only
\* the end of the process takes it away.
C20_RefreshTokenKept ==
  [][(REFRESH_TOKEN # 0 /\ ~ProcessExits)
       => /\ REFRESH_TOKEN' # 0
          /\ \A p \in Procs :
               req[p].pc \in {"idle", "up"} => req'[p].thrown # NOT_CONNECTED]_vars

\* A connected bridge went through /callback again and the response brought
\* no refresh_token; a guarded request that came later and found the token
\* stale is refreshing with the refresh token held all along.
C20_Witness ==
  \E c, g \in Procs :
    /\ req[c].route = "callback"
    /\ req[c].pc = "done"
    /\ req[c].resp.status = 200
    /\ req[c].log[1].res.refresh_token = <<>>
    /\ REFRESH_TOKEN # 0
    /\ req[g].route \in GuardedRoutes
    /\ req[g].pc = "token"
    /\ req[g].tnow > req[c].tnow
    /\ LastCall(req[g]).arg.refresh_token = REFRESH_TOKEN

====
